---- MODULE Spec2Model ----
(***************************************************************************)
(* Route observation and reconciliation of the tunnel package:             *)
(*   tunnel/proxy.go       monitorProxyRoutes (bypass routes to proxies)   *)
(*   tunnel/mtumonitor.go  iterateForeignDefaultRoutes, findDefaultLUID,   *)
(*                         monitorMTU                                      *)
(* The OS forwarding table, the interface rows and the change-notification *)
(* dispatcher (package winipcfg and the OS behind it) are the environment. *)
(***************************************************************************)
EXTENDS Integers, Sequences, FiniteSets, TLC

(***************************************************************************)
(* Program constants                                                       *)
(***************************************************************************)
AF_INET == 2
AF_INET6 == 23
IfOperStatusUp == "up"
MibParameterNotification == "parameter"
ERROR_OBJECT_ALREADY_EXISTS == "ERROR_OBJECT_ALREADY_EXISTS"
ERROR_NOT_FOUND == "ERROR_NOT_FOUND"
OtherError == "ERROR_OTHER"
NoError == "nil"

(***************************************************************************)
(* Bounds of the model                                                     *)
(***************************************************************************)
\* number of change callbacks that can be executing at the same time
MaxCallbacks == 2
\* number of peers of a configuration
MaxPeers == 2
\* number of times a relay calls its Ready callback
MaxReady == 2

\* interface LUIDs: two physical uplinks and the tunnel's own interface
ourLUID == 3
Foreign == {1, 2}
LUIDs == Foreign \cup {ourLUID}
OperStatuses == {"up", "down"}

Main == 0
Callbacks == 1..MaxCallbacks
Threads == {Main} \cup Callbacks

(***************************************************************************)
(* uint32: a value is kept as its two 16-bit halves, so that sums and      *)
(* differences wrap at 2^32 as they do in the program                      *)
(***************************************************************************)
Half == 65536
u32(hi, lo) == [hi |-> hi, lo |-> lo]
\* uint32(n) for 0 <= n < 2^31
U32(n) == u32(n \div Half, n % Half)
\* ^uint32(0)
MaxUint32 == u32(Half - 1, Half - 1)
\* a + b
AddU32(a, b) ==
    LET lo == a.lo + b.lo
    IN  u32((a.hi + b.hi + (lo \div Half)) % Half, lo % Half)
\* a - b
SubU32(a, b) ==
    LET lo == a.lo + Half - b.lo
        borrow == IF lo < Half THEN 1 ELSE 0
    IN  u32((a.hi + Half - b.hi - borrow) % Half, lo % Half)
\* a < b
LessU32(a, b) == a.hi < b.hi \/ (a.hi = b.hi /\ a.lo < b.lo)

(***************************************************************************)
(* Forwarding-table rows (winipcfg.MibIPforwardRow2)                       *)
(***************************************************************************)
Row(luid, plen, nh, metric) ==
    [InterfaceLUID |-> luid, PrefixLength |-> plen, NextHop |-> nh,
     Metric |-> metric, InterfaceIndex |-> U32(10 + luid)]

\* the forwarding table the bypass-route monitor runs against: a default
\* route per uplink, the tunnel's own default route and an on-link route
ProxyTable ==
    << Row(1, 0, "gw1", U32(20)), Row(ourLUID, 0, "gw0", U32(5)),
       Row(2, 0, "gw2", U32(10)), Row(1, 24, "gw1", U32(20)) >>

\* the same routes with the first uplink's route at metric 4294967290
WideTable ==
    << Row(1, 0, "gw1", u32(Half - 1, Half - 6)), Row(ourLUID, 0, "gw0", U32(5)),
       Row(2, 0, "gw2", U32(10)), Row(1, 24, "gw1", U32(20)) >>

(***************************************************************************)
(* proxy.Addresses of the spawned proxies: one peer whose proxy endpoint   *)
(* resolved to an IPv4 and an IPv6 address                                 *)
(***************************************************************************)
Addr(ip, v) == [ip |-> ip, v |-> v]
Is4(addr) == addr.v = 4
Is6(addr) == addr.v = 6
BitLen(addr) == IF addr.v = 4 THEN 32 ELSE 128
PrefixFrom(addr, bits) == [addr |-> addr, bits |-> bits]

proxies == << [Addresses |-> << Addr("192.0.2.7", 4), Addr("2001:db8::7", 6) >>] >>

VARIABLES
    \* ---- the operating system -------------------------------------------
    family,       \* address family the monitor was started for
    osRoutes,     \* host routes present in the OS table (luidRouteData keys)
    \* ---- monitorProxyRoutes ---------------------------------------------
    ourRoutes,    \* the captured map ourRoutes (its key set)
    newRoutes,    \* per running doIt: its local map newRoutes
    pc,           \* position of the starting goroutine and of each callback
    cont,         \* what the starting goroutine does after the current call
    kind,         \* per executing callback: "route" or "iface"
    cbr, cbi,     \* the two subscriptions: registered or not
    \* ---- monitorMTU -----------------------------------------------------
    lastLUID, lastIndex, lastMTU,
    NLMTU,        \* the tunnel interface's per-family MTU property
    \* ---- observation of the run (history) --------------------------------
    implied,      \* per running doIt: the bypass routes its snapshot implies
    addFailed,    \* per running doIt: some AddRoute failed, not already-exists
    engineAdded,  \* routes whose AddRoute by the monitor returned nil, still present
    last,         \* what the last doIt that ran alone was given and did
    mtuPass,      \* what the last monitorMTU doIt was given and did
    delIssued,    \* keys DeleteRoute was called for since they last entered a newRoutes
    delivered,    \* the last change notification a callback of monitorMTU got
    \* ---- spawnProxies ---------------------------------------------------
    conf,         \* conf.Peers: per peer, what its ProxyEndpoint is
    sp,           \* spawnProxies: position, peer of the loop, proxies, err
    relay,        \* per peer: its goroutine running p.Tunnel
    received,     \* per peer: what spawnProxies received from proxyReady
    monitoring    \* the caller of spawnProxies has started the monitors

osVars == << family, osRoutes >>
proxyVars == << ourRoutes, newRoutes, pc, cont, kind, cbr, cbi >>
mtuVars == << lastLUID, lastIndex, lastMTU, NLMTU >>
histVars == << implied, addFailed, engineAdded, delIssued >>
spawnVars == << conf, sp, relay, received, monitoring >>
aloneVars == << last, mtuPass, delivered, spawnVars >>
vars == << osVars, proxyVars, mtuVars, histVars, aloneVars >>

(***************************************************************************)
(* iterateForeignDefaultRoutes: the rows the callback is called with, in   *)
(* table order.  Neither callback of the package returns an error.         *)
(***************************************************************************)
\* the iteration without the test of the interface's OperStatus
iterateForeignDefaultRoutes_NoOperCheck(tbl, ifr, our) ==
    SelectSeq(tbl, LAMBDA r : ~(r.PrefixLength # 0 \/ r.InterfaceLUID = our))

iterateForeignDefaultRoutes(tbl, ifr, our) ==
    SelectSeq(tbl, LAMBDA r :
        /\ ~(r.PrefixLength # 0 \/ r.InterfaceLUID = our)
        /\ ~(~ifr[r.InterfaceLUID].ok \/ ifr[r.InterfaceLUID].OperStatus # IfOperStatusUp))

Range(s) == { s[i] : i \in DOMAIN s }

(***************************************************************************)
(* monitorProxyRoutes: destProxy (its key set)                             *)
(***************************************************************************)
destProxy(fam, prx) ==
    { PrefixFrom(a, BitLen(a)) :
        a \in { b \in UNION { Range(p.Addresses) : p \in Range(prx) } :
                  /\ ~(fam = AF_INET /\ ~Is4(b))
                  /\ ~(fam = AF_INET6 /\ ~Is6(b)) } }

luidRouteData(luid, destination, nextHop) ==
    [luid |-> luid, destination |-> destination, nextHop |-> nextHop]

\* the keys doIt calls AddRoute for during one scan
addAttempts(tbl, ifr, fam) ==
    { luidRouteData(r.InterfaceLUID, d, r.NextHop) :
        r \in Range(iterateForeignDefaultRoutes(tbl, ifr, ourLUID)),
        d \in destProxy(fam, proxies) }

(***************************************************************************)
(* The OS route table behind LUID.AddRoute and LUID.DeleteRoute.  fault    *)
(* says that the call fails for a reason of its own (access denied, the    *)
(* interface is gone, ...).                                                *)
(***************************************************************************)
AddRoute(os, k, fault) ==
    IF fault THEN [err |-> OtherError, os |-> os]
    ELSE IF k \in os THEN [err |-> ERROR_OBJECT_ALREADY_EXISTS, os |-> os]
    ELSE [err |-> NoError, os |-> os \cup {k}]

DeleteRoute(os, k, fault) ==
    IF fault THEN [err |-> OtherError, os |-> os]
    ELSE IF k \notin os THEN [err |-> ERROR_NOT_FOUND, os |-> os]
    ELSE [err |-> NoError, os |-> os \ {k}]

\* a doIt that keeps only the routes it added itself
keepsRoute_NilOnly(err) == err = NoError

\* a doIt that tracks a route whatever its AddRoute returned
keepsRoute_Always(err) == TRUE

\* doIt, lines 117-125: the add outcomes after which the key enters newRoutes
keepsRoute(err) == err = NoError \/ err = ERROR_OBJECT_ALREADY_EXISTS

\* doIt, lines 106-128: the AddRoute calls of one scan and what they leave
scanAdds(os, tbl, ifr, fam, fault) ==
    LET tried == addAttempts(tbl, ifr, fam)
        res(k) == AddRoute(os, k, k \in fault)
        added == { k \in tried : res(k).err = NoError }
    IN  [newRoutes |-> { k \in tried : keepsRoute(res(k).err) },
         added |-> added, os |-> os \cup added, tried |-> tried]

\* a loop that deletes every tracked route, kept or not
staleRoutes_All(our, new) == our

\* doIt, lines 132-133: the keys of ourRoutes the loop calls DeleteRoute for
staleRoutes(our, new) == { r \in our : r \notin new }

\* the DeleteRoute calls of one loop (doIt lines 132-143, cleanIt lines
\* 166-171): every error is logged or ignored, the loop goes on
deleteRoutes(os, dels, fault) ==
    LET res(k) == DeleteRoute(os, k, k \in fault)
        gone == { k \in dels : res(k).err = NoError }
    IN  [gone |-> gone, os |-> os \ gone]

(***************************************************************************)
(* Positions.  A doIt is at "doIt" before its scan, at "stale" before the  *)
(* loop over ourRoutes and at "assign" before ourRoutes = newRoutes; a     *)
(* cleanIt is at "cleanIt" before its loop and at "clear" before it        *)
(* replaces ourRoutes.                                                     *)
(***************************************************************************)
InPass(t) == pc[t] \in {"stale", "assign"}
InCleanIt == pc[Main] = "clear"
Executing(k) == { t \in Callbacks : pc[t] # "idle" /\ kind[t] = k }

\* LUID.Interface(): the interface row, or an error (ok = FALSE)
IfStates ==
    { [ok |-> TRUE, OperStatus |-> s, MTU |-> U32(1500)] : s \in OperStatuses }
        \cup { [ok |-> FALSE, OperStatus |-> "down", MTU |-> U32(0)] }

\* what a scan can find: the forwarding table and the interface rows change
\* under the monitor between any two scans
Tables == { ProxyTable }
Interfaces == { f \in [LUIDs -> IfStates] : f[ourLUID].ok /\ f[ourLUID].OperStatus = "up" }

\* what a snapshot implies: a route to every destination of the family via
\* every default route whose interface is not the tunnel's and was read as up
impliedRoutes(tbl, ifr, fam) ==
    { luidRouteData(tbl[i].InterfaceLUID, PrefixFrom(a, BitLen(a)), tbl[i].NextHop) :
        i \in { j \in DOMAIN tbl :
                  /\ tbl[j].PrefixLength = 0
                  /\ tbl[j].InterfaceLUID # ourLUID
                  /\ ifr[tbl[j].InterfaceLUID].ok
                  /\ ifr[tbl[j].InterfaceLUID].OperStatus = "up" },
        a \in { b \in UNION { Range(p.Addresses) : p \in Range(proxies) } :
                  (fam = AF_INET /\ b.v = 4) \/ (fam = AF_INET6 /\ b.v = 6) } }

AllKeys(fam) ==
    { luidRouteData(r.InterfaceLUID, d, r.NextHop) :
        r \in { x \in Range(ProxyTable) : x.PrefixLength = 0 },
        d \in destProxy(fam, proxies) }

\* no notification delivered yet
NoDelivery ==
    [kind |-> "none", isNil |-> FALSE, PrefixLength |-> 0,
     notificationType |-> "none", iface |-> 0, ran |-> FALSE]

\* spawnProxies is not in the picture: the configuration has no peer
NoSpawn ==
    /\ conf = << >>
    /\ sp = [pc |-> "done", peer |-> 1, proxies |-> << >>, err |-> NoError]
    /\ relay = << >>
    /\ received = << >>
    /\ monitoring = TRUE

NoIfr == [l \in LUIDs |-> [ok |-> FALSE, OperStatus |-> "down", MTU |-> U32(0)]]
NoPass ==
    [valid |-> FALSE, n |-> 0, tbl |-> << >>, ifr |-> NoIfr, addErrs |-> {},
     delCalls |-> {}, same |-> FALSE, prevFailed |-> FALSE, err |-> NoError,
     tried |-> {}, failed |-> {}]
NoMTUPass ==
    [valid |-> FALSE, found |-> 0, best |-> 0, eligible |-> {},
     mtu |-> U32(0), wrote |-> FALSE, err |-> NoError]

\* monitorMTU, lines 69-71; NLMTU is 0 until the monitor sets it
NoMTUState ==
    /\ lastLUID = 0 /\ lastIndex = MaxUint32 /\ lastMTU = U32(0) /\ NLMTU = U32(0)

Init ==
    /\ family = AF_INET
    \* a host route to a proxy may exist before the monitor starts
    /\ osRoutes \in { s \in SUBSET AllKeys(family) : Cardinality(s) <= 1 }
    /\ ourRoutes = {}
    /\ newRoutes = [t \in Threads |-> {}]
    /\ pc = [t \in Threads |-> IF t = Main THEN "doIt" ELSE "idle"]
    /\ cont = << >>
    /\ kind = [t \in Callbacks |-> "none"]
    /\ cbr = FALSE /\ cbi = FALSE
    /\ NoMTUState
    /\ implied = [t \in Threads |-> {}]
    /\ addFailed = [t \in Threads |-> FALSE]
    /\ engineAdded = {}
    /\ delIssued = {}
    /\ last = NoPass
    /\ mtuPass = NoMTUPass
    /\ delivered = NoDelivery
    /\ NoSpawn

(***************************************************************************)
(* doIt returns err to its caller: monitorProxyRoutes returns it (line     *)
(* 160-163), a change callback drops it (lines 177, 186).                  *)
(***************************************************************************)
\* a start that goes on to the registrations whatever the initial doIt returns
doItReturns_IgnoreErr(t, err) ==
    IF t = Main
    THEN /\ pc' = [pc EXCEPT ![t] = "regR"]
         /\ UNCHANGED kind
    ELSE /\ pc' = [pc EXCEPT ![t] = "idle"]
         /\ kind' = [kind EXCEPT ![t] = "none"]

doItReturns(t, err) ==
    IF t = Main
    THEN /\ pc' = [pc EXCEPT ![t] = IF err = NoError THEN "regR" ELSE "retErr"]
         /\ UNCHANGED kind
    ELSE /\ pc' = [pc EXCEPT ![t] = "idle"]
         /\ kind' = [kind EXCEPT ![t] = "none"]

\* the observations of a doIt end with it
forget(t) ==
    /\ implied' = [implied EXCEPT ![t] = {}]
    /\ addFailed' = [addFailed EXCEPT ![t] = FALSE]

(***************************************************************************)
(* doIt, lines 106-131: the table scan with its AddRoute calls             *)
(***************************************************************************)
doItScan(t) ==
    /\ pc[t] = "doIt"
    /\ \/ \* GetIPForwardTable2 fails
          /\ doItReturns(t, OtherError)
          /\ UNCHANGED << osVars, ourRoutes, newRoutes, cont, cbr, cbi, mtuVars, histVars, aloneVars >>
       \/ \E tbl \in Tables, ifr \in Interfaces :
          \E fault \in SUBSET addAttempts(tbl, ifr, family) :
            LET scan == scanAdds(osRoutes, tbl, ifr, family, fault)
            IN  /\ newRoutes' = [newRoutes EXCEPT ![t] = scan.newRoutes]
                /\ osRoutes' = scan.os
                /\ pc' = [pc EXCEPT ![t] = "stale"]
                /\ implied' = [implied EXCEPT ![t] = impliedRoutes(tbl, ifr, family)]
                /\ addFailed' = [addFailed EXCEPT ![t] = fault # {}]
                /\ engineAdded' = engineAdded \cup scan.added
                /\ delIssued' = delIssued \ scan.newRoutes
                /\ UNCHANGED << family, ourRoutes, cont, kind, cbr, cbi, mtuVars, aloneVars >>

\* the DeleteRoute calls of one loop over the keys in dels
deleteAll(dels, fault) ==
    LET del == deleteRoutes(osRoutes, dels, fault)
    IN  /\ osRoutes' = del.os
        /\ engineAdded' = engineAdded \ del.gone
        /\ delIssued' = delIssued \cup dels

(***************************************************************************)
(* doIt, lines 132-143: delete what ourRoutes holds and newRoutes does not *)
(***************************************************************************)
doItStale(t) ==
    /\ pc[t] = "stale"
    /\ \E fault \in SUBSET staleRoutes(ourRoutes, newRoutes[t]) :
          deleteAll(staleRoutes(ourRoutes, newRoutes[t]), fault)
    /\ pc' = [pc EXCEPT ![t] = "assign"]
    /\ UNCHANGED << family, ourRoutes, newRoutes, cont, kind, cbr, cbi,
                    mtuVars, aloneVars, implied, addFailed >>

(***************************************************************************)
(* doIt, lines 144-158: ourRoutes = newRoutes; return nil                  *)
(***************************************************************************)
doItAssign(t) ==
    /\ pc[t] = "assign"
    /\ ourRoutes' = newRoutes[t]
    /\ newRoutes' = [newRoutes EXCEPT ![t] = {}]
    /\ doItReturns(t, NoError)
    /\ forget(t)
    /\ UNCHANGED << osVars, cont, cbr, cbi, mtuVars, aloneVars, engineAdded, delIssued >>

(***************************************************************************)
(* cleanIt, lines 165-173                                                  *)
(***************************************************************************)
cleanItLoop ==
    /\ pc[Main] = "cleanIt"
    /\ \E fault \in SUBSET ourRoutes : deleteAll(ourRoutes, fault)
    /\ pc' = [pc EXCEPT ![Main] = "clear"]
    /\ UNCHANGED << family, ourRoutes, newRoutes, cont, kind, cbr, cbi,
                    mtuVars, aloneVars, implied, addFailed >>

cleanItClear ==
    /\ pc[Main] = "clear"
    /\ ourRoutes' = {}
    /\ pc' = [pc EXCEPT ![Main] = Head(cont)]
    /\ cont' = Tail(cont)
    /\ UNCHANGED << osVars, newRoutes, kind, cbr, cbi, mtuVars, histVars, aloneVars >>

(***************************************************************************)
(* monitorProxyRoutes, lines 175-194: the two registrations                *)
(***************************************************************************)
RegisterRouteChangeCallback ==
    /\ pc[Main] = "regR"
    /\ \/ /\ cbr' = TRUE
          /\ pc' = [pc EXCEPT ![Main] = "regI"]
          /\ UNCHANGED cont
       \/ \* err != nil: cleanIt(); return nil, err
          /\ pc' = [pc EXCEPT ![Main] = "cleanIt"]
          /\ cont' = << "retErr" >>
          /\ UNCHANGED cbr
    /\ UNCHANGED << osVars, ourRoutes, newRoutes, kind, cbi, mtuVars, histVars, aloneVars >>

RegisterInterfaceChangeCallback ==
    /\ pc[Main] = "regI"
    /\ \/ /\ cbi' = TRUE
          /\ pc' = [pc EXCEPT ![Main] = "running"]
          /\ UNCHANGED cont
          /\ UNCHANGED cbr
       \/ \* err != nil: cbr.Unregister(); cleanIt(); return nil, err
          /\ cbr' = FALSE
          /\ pc' = [pc EXCEPT ![Main] = "waitR"]
          /\ cont' = << "cleanIt", "retErr" >>
          /\ UNCHANGED cbi
    /\ UNCHANGED << osVars, ourRoutes, newRoutes, kind, mtuVars, histVars, aloneVars >>

(***************************************************************************)
(* The change-notification dispatcher (winipcfg)                           *)
(***************************************************************************)
\* Unregister has three parts: the subscription is taken off the
\* dispatcher's list (no further delivery); the callbacks of the subscription
\* that are executing are waited for; the cleanup function it was registered
\* with (cleanIt) is run.
\* The owner of the returned handles stops the monitor: cbr.Unregister(),
\* then cbi.Unregister()
Stop ==
    /\ pc[Main] = "running"
    /\ cbr' = FALSE
    /\ pc' = [pc EXCEPT ![Main] = "waitR"]
    /\ cont' = << "unregI", "stopped" >>
    /\ UNCHANGED << osVars, ourRoutes, newRoutes, kind, cbi, mtuVars, histVars, aloneVars >>

UnregisterInterfaceChangeCallback ==
    /\ pc[Main] = "unregI"
    /\ cbi' = FALSE
    /\ pc' = [pc EXCEPT ![Main] = "waitI"]
    /\ UNCHANGED << osVars, ourRoutes, newRoutes, cont, kind, cbr, mtuVars, histVars, aloneVars >>

UnregisterCleanup ==
    /\ pc[Main] \in {"waitR", "waitI"}
    /\ Executing(IF pc[Main] = "waitR" THEN "route" ELSE "iface") = {}
    /\ pc' = [pc EXCEPT ![Main] = "cleanIt"]
    /\ UNCHANGED << osVars, ourRoutes, newRoutes, cont, kind, cbr, cbi, mtuVars, histVars, aloneVars >>

\* the value notifications are delivered with
RouteEvents == { [isNil |-> b, PrefixLength |-> n] : b \in BOOLEAN, n \in {0, 24} }
NotificationTypes == { MibParameterNotification, "add", "delete" }

\* the dispatcher starts a registered callback on a goroutine of its own
FreeSlot(t) == pc[t] = "idle" /\ \A u \in Callbacks : u < t => pc[u] # "idle"

\* the test of the route change callbacks (proxy.go line 176, mtumonitor.go
\* line 109)
routeFilter(route) == ~route.isNil /\ route.PrefixLength = 0

\* a callback that lets every notification type through
ifaceFilter_AnyType(notificationType, iface) == TRUE

\* the test of the interface change callbacks (proxy.go line 185,
\* mtumonitor.go line 117); iface is the row the notification is about
ifaceFilter(notificationType, iface) ==
    notificationType = MibParameterNotification

\* lines 175-179
routeChangeCallback(t, route) ==
    IF routeFilter(route)
    THEN /\ pc' = [pc EXCEPT ![t] = "doIt"]
         /\ kind' = [kind EXCEPT ![t] = "route"]
    ELSE UNCHANGED << pc, kind >>

\* lines 184-188
interfaceChangeCallback(t, notificationType, iface) ==
    IF ifaceFilter(notificationType, iface)
    THEN /\ pc' = [pc EXCEPT ![t] = "doIt"]
         /\ kind' = [kind EXCEPT ![t] = "iface"]
    ELSE UNCHANGED << pc, kind >>

RouteChanged(t) ==
    /\ cbr /\ FreeSlot(t)
    /\ \E route \in RouteEvents : routeChangeCallback(t, route)
    /\ UNCHANGED << osVars, ourRoutes, newRoutes, cont, cbr, cbi, mtuVars, histVars, aloneVars >>

InterfaceChanged(t) ==
    /\ cbi /\ FreeSlot(t)
    /\ \E notificationType \in NotificationTypes, iface \in LUIDs :
          interfaceChangeCallback(t, notificationType, iface)
    /\ UNCHANGED << osVars, ourRoutes, newRoutes, cont, cbr, cbi, mtuVars, histVars, aloneVars >>

Next ==
    \/ \E t \in Threads : doItScan(t)
    \/ \E t \in Threads : doItStale(t)
    \/ \E t \in Threads : doItAssign(t)
    \/ cleanItLoop
    \/ cleanItClear
    \/ RegisterRouteChangeCallback
    \/ RegisterInterfaceChangeCallback
    \/ Stop
    \/ UnregisterInterfaceChangeCallback
    \/ UnregisterCleanup
    \/ \E t \in Callbacks : RouteChanged(t)
    \/ \E t \in Callbacks : InterfaceChanged(t)

Spec == Init /\ [][Next]_vars

(***************************************************************************)
(* Claims about the monitor with overlapping callbacks (Spec)              *)
(***************************************************************************)
doItCompletes(t) == pc[t] = "assign" /\ pc'[t] # "assign"
doItDeletes(t) == pc[t] = "stale" /\ pc'[t] = "assign"
cleanItDeletes == pc[Main] = "cleanIt" /\ pc'[Main] = "clear"
Quiescent == \A t \in Callbacks : pc[t] = "idle"

\* C1: when a doIt whose AddRoute calls all returned nil or already-exists
\* completes, ourRoutes is exactly the set of routes its snapshot implies
\* (every destination of the family via every default route on an up,
\* foreign interface), whatever ourRoutes held before.
C1_Convergence ==
    [][\A t \in Threads :
          (doItCompletes(t) /\ ~addFailed[t]) => ourRoutes' = implied[t]]_vars

\* a doIt without add failure is about to replace a non-empty ourRoutes by a
\* different, non-empty set
C1_Witness ==
    \E t \in Callbacks :
        /\ pc[t] = "assign" /\ ~addFailed[t]
        /\ implied[t] # {} /\ ourRoutes # {} /\ ourRoutes # implied[t]

\* C2: at no time are two doIt, or a doIt and cleanIt, between their first
\* read and their last write of ourRoutes.
C2_MutualExclusion ==
    Cardinality({ t \in Threads : InPass(t) \/ (t = Main /\ InCleanIt) }) <= 1

\* C3: with the initial doIt returned without error and no callback
\* executing, every key of ourRoutes is in the OS table and every route the
\* monitor added that is still there is in ourRoutes (but for the routes it
\* called DeleteRoute for and could not delete).
C3_TrackedState ==
    (pc[Main] \in {"regR", "regI", "running"} /\ Quiescent)
        => /\ ourRoutes \subseteq osRoutes
           /\ (engineAdded \ ourRoutes) \subseteq delIssued

\* C5: a route that a doIt finds in ourRoutes and not in its newRoutes has
\* DeleteRoute called for it once: no loop calls DeleteRoute for a key it
\* was already called for, and no doIt drops a key from ourRoutes that
\* DeleteRoute was not called for.
C5_DeletedOnce ==
    [][/\ \A t \in Threads :
            doItDeletes(t) => staleRoutes(ourRoutes, newRoutes[t]) \cap delIssued = {}
       /\ cleanItDeletes => ourRoutes \cap delIssued = {}
       /\ \A t \in Threads :
            doItCompletes(t) => staleRoutes(ourRoutes, newRoutes[t]) \subseteq delIssued]_vars

\* C6: once both Unregister calls of the stop have returned, ourRoutes is
\* empty, neither subscription is registered, no callback executes, and
\* DeleteRoute was called for every route the monitor added that is still
\* in the OS table.
C6_TeardownComplete ==
    pc[Main] = "stopped"
        => /\ ourRoutes = {} /\ ~cbr /\ ~cbi /\ Quiescent
           /\ engineAdded \subseteq delIssued

\* C7: when monitorProxyRoutes has returned an error, neither subscription
\* is registered, no callback executes, ourRoutes is empty and DeleteRoute
\* was called for every route the monitor added that is still in the OS
\* table.
C7_RegistrationRollback ==
    pc[Main] = "retErr"
        => /\ ourRoutes = {} /\ ~cbr /\ ~cbi /\ Quiescent
           /\ engineAdded \subseteq delIssued

(***************************************************************************)
(* findDefaultLUID, lines 34-60.  ipif[l] is what l.IPInterface(family)    *)
(* returns: the per-family interface row with its Metric, or an error.     *)
(***************************************************************************)
RECURSIVE lowestRoute(_, _, _)
\* the callback of lines 38-50 applied to the rows in order
lowestRoute(rows, ipif, acc) ==
    IF rows = << >> THEN acc
    ELSE LET r == Head(rows)
             iface == ipif[r.InterfaceLUID]
         IN  IF ~iface.ok THEN lowestRoute(Tail(rows), ipif, acc)
             ELSE IF LessU32(AddU32(r.Metric, iface.Metric), acc.lowestMetric)
             THEN lowestRoute(Tail(rows), ipif,
                              [lowestMetric |-> AddU32(r.Metric, iface.Metric),
                               index |-> r.InterfaceIndex,
                               luid |-> r.InterfaceLUID])
             ELSE lowestRoute(Tail(rows), ipif, acc)

findDefaultLUID(tbl, ifr, ipif, our, lLUID, lIndex) ==
    LET f == lowestRoute(iterateForeignDefaultRoutes(tbl, ifr, our), ipif,
                         [lowestMetric |-> MaxUint32, index |-> U32(0), luid |-> 0])
    IN  IF f.luid = lLUID /\ f.index = lIndex
        THEN [lastLUID |-> lLUID, lastIndex |-> lIndex]
        ELSE [lastLUID |-> f.luid, lastIndex |-> f.index]

\* monitorMTU, lines 63-68
minMTU(fam) ==
    IF fam = AF_INET THEN U32(576)
    ELSE IF fam = AF_INET6 THEN U32(1280)
    ELSE U32(0)

(***************************************************************************)
(* monitorMTU.doIt, lines 72-103, on the state st of the captured          *)
(* variables.  fail names the call that returns an error, if one does.     *)
(***************************************************************************)
MTUFailures == { "none", "GetIPForwardTable2", "Interface", "IPInterface", "Set" }

\* a doIt that does not test mtu > 0 before it compares mtu with lastMTU
mtuDoIt_NoZeroCheck(fam, st, tbl, ifr, ipif, fail) ==
    IF fail = "GetIPForwardTable2"
    THEN [st EXCEPT !.err = OtherError, !.wrote = FALSE, !.mtu = U32(0)]
    ELSE
    LET sel == findDefaultLUID(tbl, ifr, ipif, ourLUID, st.lastLUID, st.lastIndex)
        ifaceErr == sel.lastLUID # 0 /\ (fail = "Interface" \/ ~ifr[sel.lastLUID].ok)
        mtu == IF sel.lastLUID # 0 /\ ~ifaceErr THEN ifr[sel.lastLUID].MTU ELSE U32(0)
        s1 == [st EXCEPT !.lastLUID = sel.lastLUID, !.lastIndex = sel.lastIndex,
                         !.wrote = FALSE, !.err = NoError, !.mtu = mtu]
        nlmtu == IF LessU32(SubU32(mtu, U32(80)), minMTU(fam))
                 THEN minMTU(fam) ELSE SubU32(mtu, U32(80))
    IN  IF ifaceErr THEN [s1 EXCEPT !.err = OtherError]
        ELSE IF st.lastMTU # mtu
        THEN IF fail \in {"IPInterface", "Set"} THEN [s1 EXCEPT !.err = OtherError]
             ELSE [s1 EXCEPT !.NLMTU = nlmtu, !.lastMTU = mtu, !.wrote = TRUE]
        ELSE s1

\* a doIt that forgets its selection when the table cannot be read
mtuDoIt_ForgetOnError(fam, st, tbl, ifr, ipif, fail) ==
    IF fail = "GetIPForwardTable2"
    THEN [st EXCEPT !.err = OtherError, !.wrote = FALSE, !.mtu = U32(0),
                    !.lastLUID = 0, !.lastIndex = U32(0), !.lastMTU = U32(0)]
    ELSE
    LET sel == findDefaultLUID(tbl, ifr, ipif, ourLUID, st.lastLUID, st.lastIndex)
        ifaceErr == sel.lastLUID # 0 /\ (fail = "Interface" \/ ~ifr[sel.lastLUID].ok)
        mtu == IF sel.lastLUID # 0 /\ ~ifaceErr /\ LessU32(U32(0), ifr[sel.lastLUID].MTU)
               THEN ifr[sel.lastLUID].MTU ELSE U32(0)
        s1 == [st EXCEPT !.lastLUID = sel.lastLUID, !.lastIndex = sel.lastIndex,
                         !.wrote = FALSE, !.err = NoError, !.mtu = mtu]
        nlmtu == IF LessU32(SubU32(mtu, U32(80)), minMTU(fam))
                 THEN minMTU(fam) ELSE SubU32(mtu, U32(80))
    IN  IF ifaceErr THEN [s1 EXCEPT !.err = OtherError]
        ELSE IF LessU32(U32(0), mtu) /\ st.lastMTU # mtu
        THEN IF fail \in {"IPInterface", "Set"} THEN [s1 EXCEPT !.err = OtherError]
             ELSE [s1 EXCEPT !.NLMTU = nlmtu, !.lastMTU = mtu, !.wrote = TRUE]
        ELSE s1

mtuDoIt(fam, st, tbl, ifr, ipif, fail) ==
    IF fail = "GetIPForwardTable2"
    THEN [st EXCEPT !.err = OtherError, !.wrote = FALSE, !.mtu = U32(0)]
    ELSE
    LET sel == findDefaultLUID(tbl, ifr, ipif, ourLUID, st.lastLUID, st.lastIndex)
        ifaceErr == sel.lastLUID # 0 /\ (fail = "Interface" \/ ~ifr[sel.lastLUID].ok)
        mtu == IF sel.lastLUID # 0 /\ ~ifaceErr /\ LessU32(U32(0), ifr[sel.lastLUID].MTU)
               THEN ifr[sel.lastLUID].MTU ELSE U32(0)
        s1 == [st EXCEPT !.lastLUID = sel.lastLUID, !.lastIndex = sel.lastIndex,
                         !.wrote = FALSE, !.err = NoError, !.mtu = mtu]
        nlmtu == IF LessU32(SubU32(mtu, U32(80)), minMTU(fam))
                 THEN minMTU(fam) ELSE SubU32(mtu, U32(80))
    IN  IF ifaceErr THEN [s1 EXCEPT !.err = OtherError]
        ELSE IF LessU32(U32(0), mtu) /\ st.lastMTU # mtu
        THEN IF fail \in {"IPInterface", "Set"} THEN [s1 EXCEPT !.err = OtherError]
             ELSE [s1 EXCEPT !.NLMTU = nlmtu, !.lastMTU = mtu, !.wrote = TRUE]
        ELSE s1

mtuState ==
    [lastLUID |-> lastLUID, lastIndex |-> lastIndex, lastMTU |-> lastMTU,
     NLMTU |-> NLMTU, wrote |-> FALSE, err |-> NoError, mtu |-> U32(0)]

\* the interfaces a snapshot offers the two monitors: the default routes of
\* the table that are not the tunnel's and whose interface row reads as up
eligible(tbl, ifr) ==
    { tbl[i].InterfaceLUID :
        i \in { j \in DOMAIN tbl :
                  /\ tbl[j].PrefixLength = 0
                  /\ tbl[j].InterfaceLUID # ourLUID
                  /\ ifr[tbl[j].InterfaceLUID].ok
                  /\ ifr[tbl[j].InterfaceLUID].OperStatus = "up" } }

\* routeMetric + interfaceMetric as a number: its part above 2^16 and below
sumMetric(r, ipif) ==
    LET lo == r.Metric.lo + ipif[r.InterfaceLUID].Metric.lo
    IN  [hi |-> r.Metric.hi + ipif[r.InterfaceLUID].Metric.hi + (lo \div Half),
         lo |-> lo % Half]

\* the interface of the first row of least combined metric among the default
\* routes on eligible interfaces whose per-family row can be read, 0 if none
bestRoute(tbl, ifr, ipif) ==
    LET cand == { i \in DOMAIN tbl :
                    /\ tbl[i].PrefixLength = 0
                    /\ tbl[i].InterfaceLUID \in eligible(tbl, ifr)
                    /\ ipif[tbl[i].InterfaceLUID].ok }
        less(a, b) == a.hi < b.hi \/ (a.hi = b.hi /\ a.lo < b.lo)
        first == { i \in cand : \A j \in cand :
                      /\ ~less(sumMetric(tbl[j], ipif), sumMetric(tbl[i], ipif))
                      /\ (j < i => less(sumMetric(tbl[i], ipif), sumMetric(tbl[j], ipif))) }
    IN  IF cand = {} THEN 0 ELSE tbl[CHOOSE i \in first : TRUE].InterfaceLUID

\* one doIt of monitorMTU running alone, with what it reads drawn from the
\* given sets
monitorMTU_doIt(tbls, ifrs, ipifs, fails) ==
    \E tbl \in tbls, ifr \in ifrs, ipif \in ipifs, fail \in fails :
        \E r \in { mtuDoIt(family, mtuState, tbl, ifr, ipif, fail) } :
            /\ lastLUID' = r.lastLUID
            /\ lastIndex' = r.lastIndex
            /\ lastMTU' = r.lastMTU
            /\ NLMTU' = r.NLMTU
            /\ mtuPass' = IF fail = "GetIPForwardTable2"
                          THEN [NoMTUPass EXCEPT !.err = r.err]
                          ELSE [valid |-> TRUE, found |-> r.lastLUID,
                                best |-> bestRoute(tbl, ifr, ipif),
                                eligible |-> eligible(tbl, ifr),
                                mtu |-> r.mtu, wrote |-> r.wrote,
                                err |-> r.err]

(***************************************************************************)
(* The handlers run one at a time (SpecPass): every doIt of either monitor *)
(* and cleanIt run from their first statement to their return with nothing *)
(* in between.  The topology changes between any two of them.              *)
(***************************************************************************)
IPIfOK(m) == [ok |-> TRUE, Metric |-> U32(m)]
IPIfErr == [ok |-> FALSE, Metric |-> U32(0)]
\* per-family interface rows: every interface at metric 5
PlainIPIf == [l \in LUIDs |-> IPIfOK(5)]

InitPass ==
    /\ family \in {AF_INET, AF_INET6}
    /\ osRoutes \in { s \in SUBSET AllKeys(family) : Cardinality(s) <= 1 }
    /\ ourRoutes = {}
    /\ newRoutes = [t \in Threads |-> {}]
    /\ pc = [t \in Threads |-> IF t = Main THEN "running" ELSE "idle"]
    /\ cont = << >>
    /\ kind = [t \in Callbacks |-> "none"]
    /\ cbr = TRUE /\ cbi = TRUE
    /\ NoMTUState
    /\ implied = [t \in Threads |-> {}]
    /\ addFailed = [t \in Threads |-> FALSE]
    /\ engineAdded = {}
    /\ delIssued = {}
    /\ last = NoPass
    /\ mtuPass = NoMTUPass
    /\ delivered = NoDelivery
    /\ NoSpawn

passFixed == << family, newRoutes, pc, cont, kind, cbr, cbi, histVars, delivered, spawnVars >>

\* doIt of monitorProxyRoutes, lines 105-159
monitorProxyRoutes_doIt ==
    /\ \/ \* GetIPForwardTable2 fails: return err
          /\ last' = [NoPass EXCEPT !.err = OtherError]
          /\ UNCHANGED << osRoutes, ourRoutes >>
       \/ \E tbl \in Tables, ifr \in Interfaces :
          \E fault \in SUBSET addAttempts(tbl, ifr, family) :
            LET scan == scanAdds(osRoutes, tbl, ifr, family, fault)
                stale == staleRoutes(ourRoutes, scan.newRoutes)
            IN  \E dfault \in SUBSET stale :
                  /\ osRoutes' = deleteRoutes(scan.os, stale, dfault).os
                  /\ ourRoutes' = scan.newRoutes
                  /\ last' = [valid |-> TRUE, n |-> 1 - last.n, tbl |-> tbl, ifr |-> ifr,
                              addErrs |-> { AddRoute(osRoutes, k, k \in fault).err :
                                              k \in addAttempts(tbl, ifr, family) },
                              delCalls |-> stale,
                              same |-> last.valid /\ last.tbl = tbl /\ last.ifr = ifr,
                              prevFailed |-> OtherError \in last.addErrs,
                              err |-> NoError,
                              tried |-> scan.tried,
                              failed |-> { k \in scan.tried :
                                             AddRoute(osRoutes, k, k \in fault).err = OtherError }]
    /\ UNCHANGED << passFixed, mtuVars, mtuPass >>

\* cleanIt of monitorProxyRoutes, lines 165-173
monitorProxyRoutes_cleanIt ==
    /\ \E dfault \in SUBSET ourRoutes :
          osRoutes' = deleteRoutes(osRoutes, ourRoutes, dfault).os
    /\ ourRoutes' = {}
    /\ last' = NoPass
    /\ UNCHANGED << passFixed, mtuVars, mtuPass >>

NextPass ==
    \/ monitorProxyRoutes_doIt
    \/ monitorProxyRoutes_cleanIt
    \/ /\ monitorMTU_doIt(Tables, Interfaces, {PlainIPIf}, {"none", "GetIPForwardTable2"})
       /\ UNCHANGED << passFixed, osRoutes, ourRoutes, last >>

SpecPass == InitPass /\ [][NextPass]_vars

(***************************************************************************)
(* monitorMTU alone (SpecMTU): its initial doIt, its two registrations and *)
(* the change callbacks, one at a time                                     *)
(***************************************************************************)
\* physical MTUs read from the selected interface
MTUs == { U32(0), U32(50), U32(400), U32(500), U32(1400) }
MTUTables == { ProxyTable, WideTable }
\* interface rows: each uplink up, down or unreadable, all at the same MTU
MTUInterfaces ==
    { [l \in LUIDs |-> [f[l] EXCEPT !.MTU = IF f[l].ok THEN m ELSE U32(0)]] :
        f \in Interfaces, m \in MTUs }
\* per-family rows: the first uplink at metric 5 or 20, or unreadable
MTUIPIfs ==
    { [PlainIPIf EXCEPT ![1] = x] : x \in { IPIfErr, IPIfOK(5), IPIfOK(20) } }

InitMTU ==
    /\ family \in {AF_INET, AF_INET6}
    /\ osRoutes = {}
    /\ ourRoutes = {}
    /\ newRoutes = [t \in Threads |-> {}]
    /\ pc = [t \in Threads |-> IF t = Main THEN "doIt" ELSE "idle"]
    /\ cont = << >>
    /\ kind = [t \in Callbacks |-> "none"]
    /\ cbr = FALSE /\ cbi = FALSE
    /\ NoMTUState
    /\ implied = [t \in Threads |-> {}]
    /\ addFailed = [t \in Threads |-> FALSE]
    /\ engineAdded = {}
    /\ delIssued = {}
    /\ last = NoPass
    /\ mtuPass = NoMTUPass
    /\ delivered = NoDelivery
    /\ NoSpawn

mtuFixed == << osVars, ourRoutes, newRoutes, cont, kind, histVars, last, spawnVars >>
mtuDoItAlone == monitorMTU_doIt(MTUTables, MTUInterfaces, MTUIPIfs, MTUFailures)

\* lines 104-107: the initial doIt
MTUStart ==
    /\ pc[Main] = "doIt"
    /\ mtuDoItAlone
    /\ pc' = [pc EXCEPT ![Main] = IF mtuPass'.err = NoError THEN "regR" ELSE "retErr"]
    /\ UNCHANGED << mtuFixed, cbr, cbi, delivered >>

\* lines 108-115
MTURegisterRouteChangeCallback ==
    /\ pc[Main] = "regR"
    /\ \/ cbr' = TRUE /\ pc' = [pc EXCEPT ![Main] = "regI"]
       \/ cbr' = FALSE /\ pc' = [pc EXCEPT ![Main] = "retErr"]
    /\ UNCHANGED << mtuFixed, cbi, mtuVars, mtuPass, delivered >>

\* lines 116-125
MTURegisterInterfaceChangeCallback ==
    /\ pc[Main] = "regI"
    /\ \/ cbi' = TRUE /\ cbr' = cbr /\ pc' = [pc EXCEPT ![Main] = "running"]
       \/ \* err != nil: cbr.Unregister(); return nil, err
          cbi' = FALSE /\ cbr' = FALSE /\ pc' = [pc EXCEPT ![Main] = "retErr"]
    /\ UNCHANGED << mtuFixed, mtuVars, mtuPass, delivered >>

\* lines 108-112
MTURouteChanged ==
    /\ cbr
    /\ \E route \in RouteEvents :
          IF routeFilter(route)
          THEN mtuDoItAlone
          ELSE UNCHANGED << mtuVars, mtuPass >>
    /\ UNCHANGED << mtuFixed, pc, cbr, cbi, delivered >>

\* lines 116-120
MTUInterfaceChanged ==
    /\ cbi
    /\ \E notificationType \in NotificationTypes, iface \in LUIDs :
          IF ifaceFilter(notificationType, iface)
          THEN mtuDoItAlone
          ELSE UNCHANGED << mtuVars, mtuPass >>
    /\ UNCHANGED << mtuFixed, pc, cbr, cbi, delivered >>

NextMTU ==
    \/ MTUStart
    \/ MTURegisterRouteChangeCallback
    \/ MTURegisterInterfaceChangeCallback
    \/ MTURouteChanged
    \/ MTUInterfaceChanged

SpecMTU == InitMTU /\ [][NextMTU]_vars

(***************************************************************************)
(* Claims about the handlers run one at a time (SpecPass)                  *)
(***************************************************************************)
\* this step is a doIt of monitorProxyRoutes over the snapshot the doIt
\* before it ran over, with no cleanIt in between
SecondPass == last'.valid /\ last'.n # last.n /\ last'.same

\* C4 as claimed: a doIt run again over the same snapshot gets
\* already-exists from every AddRoute, calls DeleteRoute for nothing and
\* leaves the OS table and ourRoutes as the first doIt left them.
C4_IdempotenceAsClaimed ==
    [][SecondPass =>
          /\ last'.addErrs \subseteq {ERROR_OBJECT_ALREADY_EXISTS}
          /\ last'.delCalls = {}
          /\ osRoutes' = osRoutes
          /\ ourRoutes' = ourRoutes]_vars

\* C4: a doIt run again over the same snapshot, when no AddRoute of either
\* run fails for a reason other than already-exists, gets already-exists
\* from every AddRoute, calls DeleteRoute for nothing and leaves the OS
\* table and ourRoutes as the first doIt left them.
C4_Idempotence ==
    [][(SecondPass /\ ~last'.prevFailed /\ OtherError \notin last'.addErrs) =>
          /\ last'.addErrs \subseteq {ERROR_OBJECT_ALREADY_EXISTS}
          /\ last'.delCalls = {}
          /\ osRoutes' = osRoutes
          /\ ourRoutes' = ourRoutes]_vars

\* a second doIt over the same snapshot has run, no AddRoute of the two
\* failed, and routes are tracked
C4_Witness ==
    /\ last.valid /\ last.same /\ ~last.prevFailed
    /\ last.addErrs = {ERROR_OBJECT_ALREADY_EXISTS}
    /\ ourRoutes # {}

\* C9: no doIt of monitorProxyRoutes adds a route to the OS table or a key
\* to ourRoutes on an interface that is the tunnel's own or that its
\* snapshot does not read as up, and no doIt of monitorMTU selects such an
\* interface as lastLUID, whatever the metrics are.
C9_Exclusion ==
    [][/\ last'.valid =>
            \A k \in (osRoutes' \ osRoutes) \cup ourRoutes' :
                k.luid \in eligible(last'.tbl, last'.ifr)
       /\ mtuPass'.valid =>
            (lastLUID' = 0 \/ lastLUID' \in mtuPass'.eligible)]_vars

\* the uplink of lower metric is down in the snapshots of both monitors (and
\* the tunnel's own default route has the lowest metric of all): routes are
\* tracked, and the other uplink is selected
C9_Witness ==
    /\ last.valid /\ last.ifr[2].ok /\ last.ifr[2].OperStatus = "down"
    /\ ourRoutes # {}
    /\ mtuPass.valid /\ mtuPass.eligible = {1} /\ lastLUID = 1

(***************************************************************************)
(* Claims about monitorMTU (SpecMTU)                                       *)
(***************************************************************************)
\* C8: after findDefaultLUID returned nil, lastLUID is the interface of the
\* first default route of least routeMetric + interfaceMetric among those
\* on up, foreign interfaces with a readable per-family row, and 0 only if
\* there is none, for all 32-bit metrics.
C8_BestRoute == mtuPass.valid => mtuPass.found = mtuPass.best

\* C10: the NLMTU a doIt sets for a physical MTU p > 0 is p - 80, or the
\* floor of the family (576 for IPv4, 1280 for IPv6) when p - 80 is below
\* it, also for p < 80.
C10_MTUWritten ==
    mtuPass.wrote =>
        LET p == mtuPass.mtu.hi * Half + mtuPass.mtu.lo
            floor == IF family = AF_INET THEN 576 ELSE 1280
        IN  NLMTU = U32(IF p - 80 < floor THEN floor ELSE p - 80)

\* this step is a doIt of monitorMTU: the initial one, or one run by a
\* change callback
MTUPassStep ==
    pc[Main] = "doIt" \/ (pc' = pc /\ cbr' = cbr /\ cbi' = cbi)

\* C11: a doIt in which findDefaultLUID finds no default route, or in which
\* the selected interface is read and reports MTU 0, sets no NLMTU, leaves
\* lastMTU as it was and returns nil.
C11_NoOpOnUnknownMTU ==
    [][(/\ MTUPassStep
        /\ mtuPass'.valid /\ mtuPass'.mtu = U32(0)
        /\ (mtuPass'.found = 0 \/ mtuPass'.err = NoError))
          => /\ ~mtuPass'.wrote
             /\ mtuPass'.err = NoError
             /\ NLMTU' = NLMTU
             /\ lastMTU' = lastMTU]_vars

\* an MTU was applied earlier, and the last doIt selected an interface that
\* reports MTU 0
C11_Witness ==
    /\ mtuPass.valid /\ mtuPass.found # 0 /\ mtuPass.err = NoError
    /\ mtuPass.mtu = U32(0) /\ ~mtuPass.wrote
    /\ lastMTU # U32(0) /\ NLMTU # U32(0)

\* C12: a doIt sets NLMTU only to a value that differs from the value set
\* last: no two successive writes carry the same tunnel MTU.
C12_NoRedundantWrite ==
    [][(MTUPassStep /\ mtuPass'.wrote) => NLMTU' # NLMTU]_vars

(***************************************************************************)
(* Claims about the start of the monitor (Spec)                            *)
(***************************************************************************)
\* C13: while the initial doIt runs neither subscription is registered and
\* no callback executes; the first registration is reached only from the
\* completed initial doIt; when the initial doIt returns an error the start
\* returns it with nothing registered, and a start that returned an error
\* never runs.
C13_StartOrdering ==
    [][/\ pc[Main] \in {"doIt", "stale", "assign"} => (~cbr /\ ~cbi /\ Quiescent)
       /\ (pc'[Main] = "regR" /\ pc[Main] # "regR") => pc[Main] = "assign"
       /\ (cbr' /\ ~cbr) => pc[Main] = "regR"
       /\ (cbi' /\ ~cbi) => pc[Main] = "regI"
       /\ (pc[Main] = "doIt" /\ pc'[Main] = "retErr") => (~cbr' /\ ~cbi')
       /\ pc[Main] = "retErr" => (pc'[Main] = "retErr" /\ ~cbr' /\ ~cbi')]_vars

\* the monitor runs with both subscriptions registered after an initial doIt
\* that installed routes, and a callback is in its doIt
C13_Witness ==
    /\ pc[Main] = "running" /\ cbr /\ cbi
    /\ ourRoutes # {}
    /\ \E t \in Callbacks : pc[t] = "stale"

(***************************************************************************)
(* The change callbacks of monitorMTU with the notification they got on    *)
(* record (SpecFilter)                                                     *)
(***************************************************************************)
mtuDoItPlain ==
    monitorMTU_doIt(Tables, Interfaces, {PlainIPIf}, {"none", "GetIPForwardTable2"})

Delivery(k, route, notificationType, iface, ran) ==
    [kind |-> k, isNil |-> route.isNil, PrefixLength |-> route.PrefixLength,
     notificationType |-> notificationType, iface |-> iface, ran |-> ran]

NoRoute == [isNil |-> TRUE, PrefixLength |-> 0]

\* lines 108-112
FilterRouteChanged ==
    /\ cbr
    /\ \E route \in RouteEvents :
          \/ /\ routeFilter(route)
             /\ mtuDoItPlain
             /\ delivered' = Delivery("route", route, "none", 0, TRUE)
          \/ /\ ~routeFilter(route)
             /\ delivered' = Delivery("route", route, "none", 0, FALSE)
             /\ UNCHANGED << mtuVars, mtuPass >>
    /\ UNCHANGED << mtuFixed, pc, cbr, cbi >>

\* lines 116-120
FilterInterfaceChanged ==
    /\ cbi
    /\ \E notificationType \in NotificationTypes, iface \in LUIDs :
          \/ /\ ifaceFilter(notificationType, iface)
             /\ mtuDoItPlain
             /\ delivered' = Delivery("iface", NoRoute, notificationType, iface, TRUE)
          \/ /\ ~ifaceFilter(notificationType, iface)
             /\ delivered' = Delivery("iface", NoRoute, notificationType, iface, FALSE)
             /\ UNCHANGED << mtuVars, mtuPass >>
    /\ UNCHANGED << mtuFixed, pc, cbr, cbi >>

NextFilter ==
    \/ MTUStart
    \/ MTURegisterRouteChangeCallback
    \/ MTURegisterInterfaceChangeCallback
    \/ FilterRouteChanged
    \/ FilterInterfaceChanged

SpecFilter == InitMTU /\ [][NextFilter]_vars

\* C14 as claimed: a route notification runs doIt exactly when it has a
\* record of prefix length 0, and an interface notification runs doIt
\* exactly when it is a parameter change of the tunnel's own interface.
C14_FilterAsClaimed ==
    /\ delivered.kind = "route" =>
          (delivered.ran <=> (~delivered.isNil /\ delivered.PrefixLength = 0))
    /\ delivered.kind = "iface" =>
          (delivered.ran <=> (/\ delivered.notificationType = MibParameterNotification
                              /\ delivered.iface = ourLUID))

\* C14: a route notification runs doIt exactly when it has a record of
\* prefix length 0, an interface notification runs doIt exactly when it is
\* a parameter change, of whichever interface; a notification that runs no
\* doIt changes nothing.
C14_EventFilter ==
    [][/\ delivered'.kind = "route" =>
            (delivered'.ran <=> (~delivered'.isNil /\ delivered'.PrefixLength = 0))
       /\ delivered'.kind = "iface" =>
            (delivered'.ran <=> delivered'.notificationType = MibParameterNotification)
       /\ (delivered' # delivered /\ ~delivered'.ran) =>
            UNCHANGED << mtuVars, mtuPass, pc, cbr, cbi >>]_vars

\* a parameter change of an uplink was delivered and ran a doIt that selected
\* an interface
C14_Witness ==
    /\ delivered.kind = "iface" /\ delivered.ran
    /\ delivered.notificationType = MibParameterNotification
    /\ delivered.iface \in Foreign
    /\ mtuPass.valid /\ mtuPass.found # 0

\* C15: a pass whose read of the forwarding table fails returns the error,
\* issues no route add, no route delete and no MTU write, and leaves the
\* tracked route set, the OS route table, the last MTU and the last selected
\* route as they were.
C15_SnapshotError ==
    [][/\ (last' # last /\ ~last'.valid /\ last'.err # NoError) =>
            /\ osRoutes' = osRoutes /\ ourRoutes' = ourRoutes
            /\ last'.addErrs = {} /\ last'.delCalls = {}
            /\ UNCHANGED mtuVars
       /\ (mtuPass' # mtuPass /\ ~mtuPass'.valid /\ mtuPass'.err # NoError) =>
            /\ UNCHANGED mtuVars
            /\ ~mtuPass'.wrote
            /\ osRoutes' = osRoutes /\ ourRoutes' = ourRoutes]_vars

\* both monitors have had a pass fail on the table read while they held
\* routes and a written MTU
C15_Witness ==
    /\ ~last.valid /\ last.err # NoError /\ ourRoutes # {}
    /\ ~mtuPass.valid /\ mtuPass.err # NoError
    /\ lastLUID # 0 /\ lastMTU # U32(0) /\ NLMTU # U32(0)

\* a doIt of monitorProxyRoutes that got its snapshot has run
ProxyPassStep == last'.valid /\ last'.n # last.n

\* C16: a doIt in which an AddRoute fails for a reason other than
\* already-exists still returns nil, has every other pair of its scan in the
\* OS table and in ourRoutes, has called DeleteRoute for the stale routes and
\* does not track the failed key; the next doIt calls AddRoute again for
\* every such key that its snapshot still implies.
C16_PerRouteFailure ==
    [][/\ (ProxyPassStep /\ last'.failed # {}) =>
            /\ last'.err = NoError
            /\ last'.failed \cap ourRoutes' = {}
            /\ \A k \in addAttempts(last'.tbl, last'.ifr, family) \ last'.failed :
                  k \in ourRoutes' /\ k \in osRoutes'
            /\ last'.delCalls = ourRoutes \ ourRoutes'
       /\ (ProxyPassStep /\ last.valid /\ last.failed # {}) =>
            (last.failed \cap addAttempts(last'.tbl, last'.ifr, family)) \subseteq last'.tried]_vars

\* a doIt has had an AddRoute fail, tracks another route and has deleted a
\* stale one
C16_Witness ==
    /\ last.valid /\ last.failed # {} /\ last.err = NoError
    /\ ourRoutes # {} /\ last.delCalls # {}

(***************************************************************************)
(* spawnProxies (proxy.go lines 41-81) and the goroutines it starts        *)
(* (SpecSpawn).  A peer's ProxyEndpoint stands for what parsing and        *)
(* resolving it gives.  proxyguard's Client.Tunnel is outside the          *)
(* repository: it may call Ready, and it may return nil or an error, in    *)
(* any order and at any time.                                              *)
(***************************************************************************)
TunnelError == "ERROR_TUNNEL"
Endpoints == { "", "https://proxy", "%", "https://unknown", "https://badaddr" }

\* a spawnProxies that drops the errors of parsing and resolving
resolveErr_Dropped(ProxyEndpoint) == NoError

\* lines 46-61: the error spawnProxies gets before it can spawn the proxy
resolveErr(ProxyEndpoint) ==
    IF ProxyEndpoint = "%" THEN "url.Parse"
    ELSE IF ProxyEndpoint = "https://unknown" THEN "LookupHost"
    ELSE IF ProxyEndpoint = "https://badaddr" THEN "ParseAddr"
    ELSE NoError

Peers == 1..Len(conf)
Proxied == { i \in Peers : conf[i] # "" }

\* tunnel: the goroutine of line 74; ready: a call of the Ready callback
NoRelay == [tunnel |-> "none", result |-> NoError, ready |-> "idle", calls |-> 0]

InitSpawn ==
    /\ family = AF_INET
    /\ osRoutes = {}
    /\ ourRoutes = {}
    /\ newRoutes = [t \in Threads |-> {}]
    /\ pc = [t \in Threads |-> IF t = Main THEN "doIt" ELSE "idle"]
    /\ cont = << >>
    /\ kind = [t \in Callbacks |-> "none"]
    /\ cbr = FALSE /\ cbi = FALSE
    /\ NoMTUState
    /\ implied = [t \in Threads |-> {}]
    /\ addFailed = [t \in Threads |-> FALSE]
    /\ engineAdded = {}
    /\ delIssued = {}
    /\ last = NoPass
    /\ mtuPass = NoMTUPass
    /\ delivered = NoDelivery
    /\ conf \in UNION { [1..n -> Endpoints] : n \in 1..MaxPeers }
    /\ sp = [pc |-> "loop", peer |-> 1, proxies |-> << >>, err |-> NoError]
    /\ relay = [i \in Peers |-> NoRelay]
    /\ received = [i \in Peers |-> "none"]
    /\ monitoring = FALSE

spawnFixed == << osVars, proxyVars, mtuVars, histVars, last, mtuPass, delivered, conf >>

\* a spawnProxies that goes on to the next peer whatever it received
afterReceive_IgnoreErr(s, err) == [s EXCEPT !.pc = "loop", !.peer = @ + 1]

\* lines 76-78
afterReceive(s, err) ==
    IF err # NoError
    THEN [s EXCEPT !.pc = "failed", !.proxies = << >>, !.err = err]
    ELSE [s EXCEPT !.pc = "loop", !.peer = @ + 1]

\* one turn of the loop up to the receive, lines 43-74, or the return of
\* line 80
spawnLoop ==
    /\ sp.pc = "loop"
    /\ IF sp.peer > Len(conf)
       THEN sp' = [sp EXCEPT !.pc = "done"] /\ relay' = relay
       ELSE IF conf[sp.peer] = ""
       THEN sp' = [sp EXCEPT !.peer = @ + 1] /\ relay' = relay
       ELSE IF resolveErr(conf[sp.peer]) # NoError
       THEN /\ sp' = [sp EXCEPT !.pc = "failed", !.proxies = << >>,
                                !.err = resolveErr(conf[sp.peer])]
            /\ relay' = relay
       ELSE /\ sp' = [sp EXCEPT !.pc = "wait", !.proxies = Append(@, sp.peer)]
            /\ relay' = [relay EXCEPT ![sp.peer].tunnel = "running"]
    /\ UNCHANGED << spawnFixed, received, monitoring >>

\* line 75: err = <-proxyReady meets one of the sends on the channel
receiveReady ==
    /\ sp.pc = "wait"
    /\ \/ /\ relay[sp.peer].ready = "sending"
          /\ relay' = [relay EXCEPT ![sp.peer].ready = "idle"]
          /\ received' = [received EXCEPT ![sp.peer] = NoError]
          /\ sp' = afterReceive(sp, NoError)
       \/ /\ relay[sp.peer].tunnel = "sending"
          /\ relay' = [relay EXCEPT ![sp.peer].tunnel = "exited"]
          /\ received' = [received EXCEPT ![sp.peer] = relay[sp.peer].result]
          /\ sp' = afterReceive(sp, relay[sp.peer].result)
    /\ UNCHANGED << spawnFixed, monitoring >>

\* line 69: the relay calls Ready, which sends nil on proxyReady
Ready(i) ==
    /\ relay[i].tunnel = "running" /\ relay[i].ready = "idle"
    /\ relay[i].calls < MaxReady
    /\ relay' = [relay EXCEPT ![i].ready = "sending", ![i].calls = @ + 1]
    /\ UNCHANGED << spawnFixed, sp, received, monitoring >>

\* line 74: p.Tunnel returns and the goroutine sends what it returned
Tunnel(i) ==
    /\ relay[i].tunnel = "running"
    /\ \E err \in {NoError, TunnelError} :
          relay' = [relay EXCEPT ![i].tunnel = "sending", ![i].result = err]
    /\ UNCHANGED << spawnFixed, sp, received, monitoring >>

\* the caller of spawnProxies goes on to monitorProxyRoutes and monitorMTU
\* when spawnProxies returned no error
startMonitoring ==
    /\ sp.pc = "done" /\ ~monitoring
    /\ monitoring' = TRUE
    /\ UNCHANGED << spawnFixed, sp, relay, received >>

relayReady == \E i \in Peers : Ready(i)
relayReturns == \E i \in Peers : Tunnel(i)

NextSpawn ==
    \/ spawnLoop
    \/ receiveReady
    \/ relayReady
    \/ relayReturns
    \/ startMonitoring

SpecSpawn == InitSpawn /\ [][NextSpawn]_vars

\* a relay that has sent nothing yet calls Ready or returns
firstSignal(i) ==
    /\ relay[i].calls = 0
    /\ Ready(i) \/ Tunnel(i)

\* spawnProxies keeps running, a send and a receive on the same channel
\* meet, and every relay signals
SpecSpawnLive ==
    /\ SpecSpawn
    /\ WF_vars(spawnLoop)
    /\ WF_vars(receiveReady)
    /\ \A i \in 1..MaxPeers : WF_vars(i \in Peers /\ firstSignal(i))

\* the relay of peer i has been started
Started(i) == relay[i].tunnel # "none"

C17_State ==
    /\ \A i \in Peers :
          /\ Started(i) =>
                /\ conf[i] # ""
                /\ \A j \in Proxied : j < i => received[j] = NoError
          /\ received[i] = NoError =>
                \/ relay[i].calls >= 1
                \/ relay[i].tunnel = "exited" /\ relay[i].result = NoError
    /\ sp.pc = "wait" => (Started(sp.peer) /\ received[sp.peer] = "none")
    /\ \A k \in 1..Len(sp.proxies) :
          /\ Started(sp.proxies[k])
          /\ k < Len(sp.proxies) => sp.proxies[k] < sp.proxies[k + 1]
    /\ sp.pc = "done" =>
          /\ sp.err = NoError
          /\ Len(sp.proxies) = Cardinality(Proxied)
          /\ \A i \in Proxied : Started(i) /\ received[i] = NoError

C17_Step ==
    /\ \A i \in Peers :
          /\ (Started(i)' /\ ~Started(i)) =>
                (sp.pc = "loop" /\ sp.peer = i /\ sp'.pc = "wait")
          /\ Started(i) => Started(i)'
          /\ (relay'[i].tunnel = "running" /\ relay[i].tunnel # "running") => ~Started(i)
    /\ (sp.pc = "wait" /\ sp'.pc # "wait") => received'[sp.peer] # "none"

BadEndpoints == { "%", "https://unknown", "https://badaddr" }

C18_State ==
    /\ \A i \in Peers :
          \* spawnProxies does not get past a failure
          /\ (conf[i] \in BadEndpoints \/ received[i] = TunnelError) =>
                /\ sp.peer <= i
                /\ sp.pc # "done"
                /\ \A j \in Peers : j > i => ~Started(j)
                /\ ~monitoring
          /\ conf[i] \in BadEndpoints => ~Started(i)
          /\ received[i] = TunnelError =>
                (sp.pc = "failed" /\ sp.peer = i /\ sp.err = TunnelError)
    /\ sp.pc = "failed" =>
          /\ sp.proxies = << >>
          /\ sp.err # NoError
          /\ \/ conf[sp.peer] \in BadEndpoints /\ sp.err \in {"url.Parse", "LookupHost", "ParseAddr"}
             \/ received[sp.peer] = TunnelError /\ sp.err = TunnelError
    /\ monitoring => sp.pc = "done"

C18_Step ==
    /\ (sp.pc = "loop" /\ sp.peer \in Peers /\ conf[sp.peer] \in BadEndpoints) =>
          (sp' = sp \/ sp'.pc = "failed")
    /\ sp.pc = "failed" =>
          /\ sp' = sp /\ monitoring' = monitoring
          /\ \A i \in Peers : Started(i)' = Started(i)

\* C18: when spawnProxies reaches a proxied peer whose endpoint does not
\* parse or resolve, or receives an error from a peer's relay, it returns
\* that error and nil for the proxies; it starts no relay for a later peer,
\* and its caller starts no monitor.
C18_OrchestrationAbort == []C18_State /\ [][C18_Step]_vars

\* the relay of the second peer reported an error after the first was ready
C18_Witness ==
    /\ Len(conf) = MaxPeers /\ sp.pc = "failed" /\ sp.peer = MaxPeers
    /\ received[1] = NoError /\ received[MaxPeers] = TunnelError
    /\ relay[1].tunnel = "running" /\ ~monitoring

\* C19: every route that a DeleteRoute of the monitor takes out of the OS
\* table is one that an AddRoute of the monitor put there; a route that was
\* in the table before the monitor started stays.
C19_DeletesOnlyOwnRoutes ==
    [][\A k \in osRoutes \ osRoutes' : k \in engineAdded]_vars

\* C20: a send on a peer's proxyReady, by the Ready callback or by the
\* goroutine that ran Tunnel, waits only while spawnProxies has yet to
\* receive from that channel; no send is left waiting on a channel that
\* spawnProxies has already received from, which it never reads again.
C20_EverySendReceived ==
    \A i \in Peers :
        (relay[i].ready = "sending" \/ relay[i].tunnel = "sending") =>
            (received[i] = "none" /\ sp.pc = "wait" /\ sp.peer = i)

====
